---------------------------- MODULE Spec2Model ----------------------------
(***************************************************************************)
(* HydroAI reservoir dashboard: the deterministic seasonal-data generator, *)
(* the coordinate validator, the capacity-percentage computations and the  *)
(* water-polygon synthesizer, as state machines over the calls made to     *)
(* them; and the App component: its selection, its report and its backend  *)
(* results, as a state machine over its handlers, its effects and the      *)
(* completions of the calls it awaits.                                     *)
(*                                                                         *)
(* Number representation.                                                  *)
(*  - Reservoir ids are sequences of UTF-16 code units, so that            *)
(*    charCodeAt(length - 1) is id[Len(id)].                               *)
(*  - Inside getHistoricalData every quantity is exact fixed point:        *)
(*    percentages and noise in 1/Scale units, waterLevel and fullLevel in  *)
(*    tenths of a metre, surfaceArea in hundredths of a km2.               *)
(*  - Elsewhere a JavaScript value is a record [t, n, e]; a finite number  *)
(*    is t = "fin" with n in thousandths (Milli), of magnitude at most     *)
(*    MaxFinite, which stands for Number.MAX_VALUE: a result beyond it is  *)
(*    +-Infinity, and numbers near it are spaced Ulp apart, as IEEE-754    *)
(*    doubles are.                                                         *)
(*  - The fields of the selection are plain values; what the backend and   *)
(*    the AI service return are records tagged t = "object", with the      *)
(*    request they answer in the field for.                                *)
(***************************************************************************)
EXTENDS Integers, Sequences, FiniteSets, TLC

VARIABLES
    random,     \* the value most recently returned by Math.random(), in thousandths
    calls,      \* log of getHistoricalData calls: [id, rnd, seed, data]
    coord,      \* argument of the latest isValidCoordinate calls
    valid,      \* their results, one per version of the validator
    pctIn,      \* [volume, maxCapacity] of the latest percentage computation
    pctOut,     \* the figures computed from it, one per place that computes one
    poly,       \* the running generateWaterPolygon call
    mapView,    \* the latest render of MapVisualizer: its reservoir and locations
    state,              \* App: the SimulationState
    aiAnalysis,         \* App: the report on display, or null
    isGeneratingReport, \* App: a report is being generated
    backendStatus,      \* App: "checking", "online" or "offline"
    satelliteData,      \* App: the satellite analysis in use, or null
    mlForecast,         \* App: the forecast volume in use, or null
    mlAnomaly,          \* App: the anomaly flag in use
    isLoadingBackend,   \* App: the backend spinner
    fetches,            \* the fetchLive calls awaiting their responses, oldest first
    latest,             \* how the fetchLive call issued last, and the one completed
                        \* last, have ended
    reports,            \* the handleGenerateAI calls awaiting their report
    lastOp,             \* the handler that ran last, with its argument and
                        \* whether a report was on display when it ran
    panel,              \* MLControlPanel: its state, its interval and the calls
                        \* it awaits
    feedback            \* ModelFeedback: its props, its state and the calls of
                        \* onFeedbackSubmit

genVars == <<random, calls, coord, valid, pctIn, pctOut, poly>>

backendVars == <<satelliteData, mlForecast, isLoadingBackend, fetches, latest>>

reactVars == <<state, aiAnalysis, isGeneratingReport, backendStatus, mlAnomaly,
               backendVars, reports, lastOp>>

widgetVars == <<panel, feedback>>

appVars == <<mapView, reactVars, widgetVars>>

(* the argument of a handler that takes no partial state *)
NoArgument == [f \in {} |-> FALSE]

vars == <<genVars, appVars>>

----------------------------------------------------------------------------
(* Bounds of the model *)

MaxCalls == 2

----------------------------------------------------------------------------
(* Helpers *)

Max(a, b) == IF a >= b THEN a ELSE b

Min(a, b) == IF a <= b THEN a ELSE b



(* Math.round on the rational num/den, den > 0: floor(x + 0.5). *)
MathRoundFloor(num, den) == num \div den

MathRound(num, den) == (2 * num + den) \div (2 * den)

----------------------------------------------------------------------------
(* services/mockData.ts: RESERVOIRS *)

IdChembarambakkam ==
    <<114, 101, 115, 45, 99, 104, 101, 109, 98, 97, 114, 97, 109, 98, 97, 107, 107, 97, 109>>

IdCholavaram == <<114, 101, 115, 45, 99, 104, 111, 108, 97, 118, 97, 114, 97, 109>>

IdVeeranam == <<114, 101, 115, 45, 118, 101, 101, 114, 97, 110, 97, 109>>

IdPoondi == <<114, 101, 115, 45, 112, 111, 111, 110, 100, 105>>

IdRedhills == <<114, 101, 115, 45, 114, 101, 100, 104, 105, 108, 108, 115>>

IdKaveripakkam ==
    <<114, 101, 115, 45, 107, 97, 118, 101, 114, 105, 112, 97, 107, 107, 97, 109>>

(* fullLevel in tenths of a metre, location in thousandths of a degree *)
RESERVOIRS ==
    << [id |-> IdChembarambakkam, maxCapacity |-> 103, fullLevel |-> 259,
        location |-> <<13009, 80057>>],
       [id |-> IdCholavaram, maxCapacity |-> 30, fullLevel |-> 185,
        location |-> <<13233, 80142>>],
       [id |-> IdVeeranam, maxCapacity |-> 41, fullLevel |-> 145,
        location |-> <<11356, 79541>>],
       [id |-> IdPoondi, maxCapacity |-> 91, fullLevel |-> 420,
        location |-> <<13192, 79860>>],
       [id |-> IdRedhills, maxCapacity |-> 93, fullLevel |-> 152,
        location |-> <<13154, 80191>>],
       [id |-> IdKaveripakkam, maxCapacity |-> 42, fullLevel |-> 128,
        location |-> <<12897, 79462>>] >>

(* Ids that are not in RESERVOIRS: "", "res-unknown", "res-x", "xa" *)
IdEmpty == << >>

IdUnknownEven == <<114, 101, 115, 45, 117, 110, 107, 110, 111, 119, 110>>

IdUnknownX == <<114, 101, 115, 45, 120>>

IdUnknownOdd == <<120, 97>>

KnownIds == {RESERVOIRS[k].id : k \in DOMAIN RESERVOIRS}

UnknownIds == {IdEmpty, IdUnknownEven, IdUnknownX, IdUnknownOdd}

Ids == KnownIds \cup UnknownIds

----------------------------------------------------------------------------
(* services/mockData.ts: getHistoricalData *)

Scale == 10000

startYear == 2020

endYear == 2024

seasonsSwapped == <<"Winter", "Monsoon", "Summer", "Post-Monsoon">>

seasons == <<"Winter", "Summer", "Monsoon", "Post-Monsoon">>

(* reservoirId.charCodeAt(reservoirId.length - 1), or 42 for the empty id *)
seed(reservoirId) ==
    IF Len(reservoirId) > 0 THEN reservoirId[Len(reservoirId)] ELSE 42

baseVol(season) ==
    CASE season = "Monsoon" -> 90
      [] season = "Post-Monsoon" -> 80
      [] season = "Winter" -> 60
      [] season = "Summer" -> 30
      [] OTHER -> 50

trendFlipped(year, sd) == (year - startYear) * (IF sd % 2 = 0 THEN 1 ELSE -2)

trend(year, sd) == (year - startYear) * (IF sd % 2 = 0 THEN -2 ELSE 1)

(* Math.sin(x) * 10 in 1/Scale units, for the arguments year * index the    *)
(* loop produces (x in radians, rounded to four decimals)                   *)
MathSin10(x) ==
    CASE x = 0 -> 0
      [] x = 2020 -> 4406
      [] x = 2021 -> -81685
      [] x = 2022 -> -92675
      [] x = 2023 -> -18460
      [] x = 2024 -> 72727
      [] x = 4040 -> -8804
      [] x = 4042 -> 94240
      [] x = 4044 -> -69632
      [] x = 4046 -> -36286
      [] x = 4048 -> 99833
      [] x = 6060 -> 13184
      [] x = 6063 -> -27041
      [] x = 6066 -> 40357
      [] x = 6069 -> -52865
      [] x = 6072 -> 64315

(* index is the 0-based position of the season *)
noiseRandom(year, index) == (random - 500) * 200

noise(year, index) == MathSin10(year * index)

(* Math.max(10, Math.min(100, baseVol + trend + noise)), in 1/Scale percent *)
volumeUnclamped(season, year, index, sd) ==
    (baseVol(season) + trend(year, sd)) * Scale + noise(year, index)

volume(season, year, index, sd) ==
    Max(10 * Scale,
        Min(100 * Scale, (baseVol(season) + trend(year, sd)) * Scale + noise(year, index)))

find(reservoirId) ==
    {k \in DOMAIN RESERVOIRS : RESERVOIRS[k].id = reservoirId}

(* reservoir?.maxCapacity || 100 *)
maxVolNoDefault(reservoirId) ==
    IF find(reservoirId) = {} THEN 1
    ELSE RESERVOIRS[CHOOSE k \in find(reservoirId) : \A j \in find(reservoirId) : k <= j].maxCapacity

maxVol(reservoirId) ==
    IF find(reservoirId) = {} THEN 100
    ELSE LET k == CHOOSE k \in find(reservoirId) : \A j \in find(reservoirId) : k <= j
         IN  IF RESERVOIRS[k].maxCapacity = 0 THEN 100 ELSE RESERVOIRS[k].maxCapacity

(* reservoir?.fullLevel without the default of 20 *)
fullLevelNoDefault(reservoirId) ==
    IF find(reservoirId) = {} THEN 1
    ELSE RESERVOIRS[CHOOSE k \in find(reservoirId) : \A j \in find(reservoirId) : k <= j].fullLevel

(* reservoir?.fullLevel || 20, in tenths *)
fullLevel(reservoirId) ==
    IF find(reservoirId) = {} THEN 200
    ELSE LET k == CHOOSE k \in find(reservoirId) : \A j \in find(reservoirId) : k <= j
         IN  IF RESERVOIRS[k].fullLevel = 0 THEN 200 ELSE RESERVOIRS[k].fullLevel

(* 800 + noise * 10 in every season *)
rainfallMonsoon(season, year, index) ==
    800 * Scale + noise(year, index) * 10

(* 800 + noise * 10 for the monsoon, 50 + noise otherwise, in 1/Scale mm *)
rainfall(season, year, index) ==
    IF season = "Monsoon" THEN 800 * Scale + noise(year, index) * 10
    ELSE 50 * Scale + noise(year, index)

(* the record pushed by one iteration of the inner loop *)
record(reservoirId, year, index) ==
    LET season == seasons[index + 1]
        vol == volume(season, year, index, seed(reservoirId))
        actualVolume == MathRound(vol * maxVol(reservoirId), 100 * Scale)
    IN  [season |-> season,
         year |-> year,
         volume |-> actualVolume,
         waterLevel |-> MathRound(vol * fullLevel(reservoirId), 100 * Scale),
         surfaceArea |-> MathRound(actualVolume * 15 * 100, maxVol(reservoirId)),
         rainfall |-> Max(0, MathRound(rainfall(season, year, index), Scale)),
         cloudCover |-> IF season = "Monsoon" THEN 80 ELSE 10]

(* for (year = startYear; year <= 2024; year++) seasons.forEach(...) *)
RECURSIVE yearLoop(_, _, _)
yearLoop(reservoirId, year, last) ==
    IF year > last THEN << >>
    ELSE [index \in 1..Len(seasons) |-> record(reservoirId, year, index - 1)]
           \o yearLoop(reservoirId, year + 1, last)

getHistoricalData(reservoirId) == yearLoop(reservoirId, startYear, endYear)

----------------------------------------------------------------------------
(* JavaScript values and number arithmetic *)

MaxFinite == 1000000

MaxArrayLen == 3

Milli == 1000

Ulp == 100

Precise == MaxFinite \div 2

Fin(n) == [t |-> "fin", n |-> n, e |-> << >>]

NaN == [t |-> "nan", n |-> 0, e |-> << >>]

PInf == [t |-> "pinf", n |-> 0, e |-> << >>]

NInf == [t |-> "ninf", n |-> 0, e |-> << >>]

Undefined == [t |-> "undef", n |-> 0, e |-> << >>]

Null == [t |-> "null", n |-> 0, e |-> << >>]

(* a numeric string such as "13", holding the number it spells *)
Str(n) == [t |-> "str", n |-> n, e |-> << >>]

Arr(elems) == [t |-> "array", n |-> 0, e |-> elems]

(* the booleans, as values of the language *)
False == [t |-> "boolean", n |-> 0, e |-> << >>]

True == [t |-> "boolean", n |-> 1, e |-> << >>]

typeof(v) ==
    CASE v.t \in {"fin", "nan", "pinf", "ninf"} -> "number"
      [] v.t = "boolean" -> "boolean"
      [] v.t = "str" -> "string"
      [] v.t = "undef" -> "undefined"
      [] OTHER -> "object"

ArrayIsArray(v) == v.t = "array"

(* the global isFinite, which converts its argument to a number first *)
isFiniteGlobal(v) == v.t \in {"fin", "str", "null"}

(* Number.isFinite: no conversion, false for every non-number *)
NumberIsFinite(v) == v.t = "fin"

(* !v is true for undefined, null, false, 0 and NaN; strings here are    *)
(* non-empty *)
Falsy(v) == v.t \in {"undef", "null", "nan"} \/ (v.t \in {"fin", "boolean"} /\ v.n = 0)

(* v[k] for a 0-based k: an element, a character, or undefined *)
Elem(v, k) ==
    CASE v.t = "array" /\ k < Len(v.e) -> v.e[k + 1]
      [] v.t = "str" /\ k = 0 -> Str(v.n)
      [] OTHER -> Undefined

(* ToNumber on the operands of an arithmetic operator *)
ToNumber(v) ==
    CASE v.t \in {"fin", "nan", "pinf", "ninf"} -> v
      [] v.t = "null" -> Fin(0)
      [] v.t = "str" -> Fin(v.n * Milli)
      [] OTHER -> NaN

Abs(a) == IF a < 0 THEN -a ELSE a

Sign(v) == IF v.t = "ninf" \/ (v.t = "fin" /\ v.n < 0) THEN -1 ELSE 1

Inf(sgn) == IF sgn < 0 THEN NInf ELSE PInf

(* A mathematical result x, in thousandths, as the number it is stored as. *)
(* Magnitudes up to Precise are kept exactly; above, numbers are spaced    *)
(* Ulp apart and x is rounded to the nearest one, so that a small addend   *)
(* is absorbed by a large number; a result of MaxFinite + Ulp / 2 or more  *)
(* is an infinity.                                                         *)
Norm(x) ==
    LET a == IF x < 0 THEN -x ELSE x
        r == IF a <= Precise THEN a ELSE ((2 * a + Ulp) \div (2 * Ulp)) * Ulp
        m == IF r > MaxFinite THEN MaxFinite ELSE r
    IN  IF 2 * a >= 2 * MaxFinite + Ulp THEN Inf(IF x < 0 THEN -1 ELSE 1)
        ELSE Fin(IF x < 0 THEN -m ELSE m)

Signed(sgn, x) == IF sgn < 0 THEN Norm(-x) ELSE Norm(x)

IsInf(v) == v.t \in {"pinf", "ninf"}

IsZero(v) == v.t = "fin" /\ v.n = 0

(* a + b on numbers *)
Add(a, b) ==
    CASE a.t = "nan" \/ b.t = "nan" -> NaN
      [] IsInf(a) /\ IsInf(b) -> IF a.t = b.t THEN a ELSE NaN
      [] IsInf(a) -> a
      [] IsInf(b) -> b
      [] OTHER -> Norm(a.n + b.n)

(* a * b, after ToNumber *)
Mul(x, y) ==
    LET a == ToNumber(x)
        b == ToNumber(y)
        sgn == Sign(a) * Sign(b)
    IN  CASE a.t = "nan" \/ b.t = "nan" -> NaN
          [] (IsInf(a) /\ IsZero(b)) \/ (IsZero(a) /\ IsInf(b)) -> NaN
          [] IsInf(a) \/ IsInf(b) -> Inf(sgn)
          [] IsZero(a) \/ IsZero(b) -> Fin(0)
          [] Abs(b.n) > (MaxFinite * Milli + Milli) \div Abs(a.n) -> Inf(sgn)
          [] OTHER -> Signed(sgn, (2 * Abs(a.n) * Abs(b.n) + Milli) \div (2 * Milli))

(* a / b, after ToNumber *)
Div(x, y) ==
    LET a == ToNumber(x)
        b == ToNumber(y)
        sgn == Sign(a) * Sign(b)
    IN  CASE a.t = "nan" \/ b.t = "nan" -> NaN
          [] IsInf(a) /\ IsInf(b) -> NaN
          [] IsInf(a) -> Inf(sgn)
          [] IsInf(b) -> Fin(0)
          [] IsZero(b) -> IF IsZero(a) THEN NaN ELSE Inf(sgn)
          [] OTHER -> Signed(sgn, (2 * Abs(a.n) * Milli + Abs(b.n)) \div (2 * Abs(b.n)))

----------------------------------------------------------------------------
(* components/MapVisualizer.tsx: isValidCoordinate, in its three versions *)

isValidCoordinate1(c) ==
    /\ ArrayIsArray(c)
    /\ Len(c.e) = 2
    /\ typeof(Elem(c, 0)) = "number" /\ NumberIsFinite(Elem(c, 0))
    /\ typeof(Elem(c, 1)) = "number" /\ NumberIsFinite(Elem(c, 1))

isValidCoordinate2(c) ==
    /\ ArrayIsArray(c)
    /\ Len(c.e) = 2
    /\ NumberIsFinite(Elem(c, 0))
    /\ NumberIsFinite(Elem(c, 1))

isValidCoordinate(c) ==
    /\ ArrayIsArray(c)
    /\ Len(c.e) = 2
    /\ typeof(Elem(c, 0)) = "number" /\ NumberIsFinite(Elem(c, 0))
    /\ typeof(Elem(c, 1)) = "number" /\ NumberIsFinite(Elem(c, 1))

(* the values passed as coordinates and as array elements *)
Scalars ==
    {Fin(13009), Fin(80057), Fin(0), NaN, PInf, NInf, Undefined, Null, Str(13)}

Elems == {Fin(13009), Fin(80057), NaN, PInf, Undefined, Str(13)}

RECURSIVE Arrays(_)
Arrays(len) ==
    IF len = 0 THEN {<< >>}
    ELSE {Append(a, x) : a \in Arrays(len - 1), x \in Elems}

Coords == Scalars \cup {Arr(a) : a \in UNION {Arrays(len) : len \in 0..MaxArrayLen}}

----------------------------------------------------------------------------
(* Capacity percentages: MapVisualizer.volumePercentage in its three       *)
(* versions, the volPct of MapVisualizer.waterPolygon, and the "% Capacity" *)
(* figure of the Storage Vol card in App. vol is data?.volume and cap is   *)
(* reservoir?.maxCapacity, undefined when the object itself is missing.    *)

Hundred == Fin(100 * Milli)

volumePercentage1(vol, cap) ==
    IF Falsy(vol) \/ Falsy(cap) THEN Fin(0)
    ELSE LET pct == Mul(Div(vol, cap), Hundred)
         IN  IF NumberIsFinite(pct) THEN pct ELSE Fin(0)

(* the second version returns the quotient as it is *)
volumePercentage2(vol, cap) ==
    IF Falsy(vol) \/ Falsy(cap) THEN Fin(0)
    ELSE Mul(Div(vol, cap), Hundred)

volumePercentageUnguarded(vol, cap) ==
    IF Falsy(vol) \/ Falsy(cap) THEN Fin(0)
    ELSE Mul(Div(vol, cap), Hundred)

volumePercentage(vol, cap) ==
    IF Falsy(vol) \/ Falsy(cap) THEN Fin(0)
    ELSE LET pct == Mul(Div(vol, cap), Hundred)
         IN  IF NumberIsFinite(pct) THEN pct ELSE Fin(0)

(* waterPolygon returns [] before computing volPct when the volume is not  *)
(* a number or maxCapacity is falsy: volPct is then undefined              *)
volPct(vol, cap) ==
    IF typeof(vol) # "number" \/ Falsy(cap) THEN Undefined
    ELSE LET pct == Mul(Div(vol, cap), Hundred)
         IN  IF NumberIsFinite(pct) THEN pct ELSE Fin(0)

(* Math.round on a number: to the nearest integer, halves upwards *)
MathRoundNum(v) ==
    IF v.t = "fin" THEN Norm(((2 * v.n + Milli) \div (2 * Milli)) * Milli) ELSE v

(* Math.round((displayData.volume / selectedReservoir.maxCapacity) * 100) *)
storageVolPercent(vol, cap) == MathRoundNum(Mul(Div(vol, cap), Hundred))

(* volumes and capacities: missing, null, NaN, infinite, zero, those of    *)
(* the reservoirs, and the largest finite number                           *)
Volumes ==
    {Undefined, Null, NaN, PInf, NInf, Fin(0), Fin(56 * Milli), Fin(93 * Milli),
     Fin(103 * Milli), Fin(-56 * Milli), Fin(MaxFinite)}

Capacities ==
    {Undefined, Null, NaN, PInf, Fin(0), Fin(93 * Milli), Fin(103 * Milli),
     Fin(30 * Milli), Fin(42 * Milli), Fin(MaxFinite)}

----------------------------------------------------------------------------
(* services/mockData.ts: generateWaterPolygon. The call is a loop of sides *)
(* iterations, each drawing Math.random() once; poly holds its position.   *)
(* Nothing reads the points pushed earlier, so the list is held as its     *)
(* length and its most recent element.                                     *)

sides == 20

(* Math.cos and Math.sin of i * 360 / sides degrees, in thousandths *)
MathCos(i) ==
    <<1000, 951, 809, 588, 309, 0, -309, -588, -809, -951,
      -1000, -951, -809, -588, -309, 0, 309, 588, 809, 951>>[i + 1]

MathSin(i) ==
    <<0, 309, 588, 809, 951, 1000, 951, 809, 588, 309,
      0, -309, -588, -809, -951, -1000, -951, -809, -588, -309>>[i + 1]

(* reading a property of undefined or null throws a TypeError *)
PropertyAccessThrows(v) == v.t \in {"undef", "null"}

(* if (!center || !Number.isFinite(center[0]) || !Number.isFinite(center[1])) *)
(*   return [];                                                             *)
(* evaluated left to right: "return", "throw", or "loop" when it is passed  *)
centerGuard(center) ==
    CASE Falsy(center) -> "return"
      [] PropertyAccessThrows(center) -> "throw"
      [] ~NumberIsFinite(Elem(center, 0)) -> "return"
      [] ~NumberIsFinite(Elem(center, 1)) -> "return"
      [] OTHER -> "loop"

safeVolPct(volumePct) == IF NumberIsFinite(volumePct) THEN volumePct ELSE Fin(0)

(* 0.015 * (safeVolPct / 100) *)
baseRadius(volumePct) == Mul(Fin(15), Div(safeVolPct(volumePct), Hundred))

(* baseRadius * (0.8 + Math.random() * 0.4) *)
radius(volumePct, rnd) ==
    Mul(baseRadius(volumePct), Add(Fin(800), Mul(Fin(rnd), Fin(400))))

lat(center, volumePct, i, rnd) ==
    Add(Elem(center, 0), Mul(radius(volumePct, rnd), Fin(MathCos(i))))

lng(center, volumePct, i, rnd) ==
    Add(Elem(center, 1), Mul(Mul(radius(volumePct, rnd), Fin(MathSin(i))), Fin(1200)))

(* if (Number.isFinite(lat) && Number.isFinite(lng)) points.push([lat, lng]) *)
pushedUnchecked(la, ln) == TRUE

pushed(la, ln) == NumberIsFinite(la) /\ NumberIsFinite(ln)

(* centers: valid pairs (a reservoir, the origin, the largest finite       *)
(* numbers), pairs with a non-finite or non-numeric component, arrays of   *)
(* other lengths, and values that are not arrays                           *)
Centers ==
    {Arr(<<Fin(13009), Fin(80057)>>), Arr(<<Fin(0), Fin(0)>>),
     Arr(<<Fin(MaxFinite), Fin(0)>>), Arr(<<Fin(11356), Fin(-MaxFinite)>>),
     Arr(<<NaN, Fin(80057)>>), Arr(<<Fin(13009), PInf>>), Arr(<<NInf, NaN>>),
     Arr(<<Str(13), Fin(80057)>>), Arr(<<Fin(13009), Undefined>>),
     Arr(<<Fin(13009)>>), Arr(<< >>), Arr(<<Fin(13009), Fin(80057), Fin(0)>>),
     Undefined, Null, Fin(0), Fin(13009), NaN, Str(13)}

VolumePcts ==
    {Fin(0), Fin(50 * Milli), Fin(100 * Milli), Fin(-20 * Milli), Fin(MaxFinite),
     NaN, PInf, Undefined}

----------------------------------------------------------------------------
(* Calls of the generator, interleaved with draws of Math.random() *)

RandomValues == {0, 500, 999}

Init ==
    /\ random = 0
    /\ calls = << >>
    /\ coord = Undefined
    /\ valid = [v1 |-> FALSE, v2 |-> FALSE, v3 |-> FALSE]
    /\ pctIn = [volume |-> Undefined, maxCapacity |-> Undefined]
    /\ pctOut = [v1 |-> Undefined, v2 |-> Undefined, volumePercentage |-> Undefined,
                 volPct |-> Undefined, storageVol |-> Undefined]
    /\ poly = [pc |-> "idle", center |-> Undefined, volumePct |-> Undefined,
               i |-> 0, length |-> 0, last |-> Undefined]
    /\ mapView = [rendered |-> FALSE, reservoir |-> Undefined,
                  v1 |-> Undefined, v2 |-> Undefined,
                  safeReservoirLocation |-> Undefined,
                  polygon |-> [called |-> FALSE, center |-> Undefined],
                  map |-> [shown |-> FALSE, center |-> Undefined]]
    /\ state = [selectedReservoirId |-> RESERVOIRS[1].id,
                year |-> 2024,
                season |-> "Post-Monsoon",
                isComparisonMode |-> FALSE,
                compareYear |-> 2023,
                compareSeason |-> "Post-Monsoon"]
    /\ aiAnalysis = Null
    /\ isGeneratingReport = FALSE
    /\ backendStatus = "checking"
    /\ satelliteData = Null
    /\ mlForecast = Null
    /\ mlAnomaly = False
    /\ isLoadingBackend = FALSE
    /\ fetches = << >>
    /\ latest = [issued |-> "none", completed |-> "none"]
    /\ reports = << >>
    /\ lastOp = [op |-> "mount", p |-> NoArgument, hadReport |-> FALSE]
    /\ panel = [mounted |-> TRUE, interval |-> TRUE, loads |-> 1,
                metrics |-> << >>, isTraining |-> FALSE, latestIoU |-> 0,
                retrain |-> "idle"]
    /\ feedback = [analysis |-> Null,
                   data |-> [key |-> 1, surfaceArea |-> Fin(903)],
                   feedbackState |-> "idle",
                   userCorrection |-> [surfaceArea |-> Fin(903),
                                       riskLevel |-> "Moderate"],
                   onFeedbackSubmit |-> Null,
                   sinceReset |-> 0,
                   perAnalysis |-> 0]

MathRandom ==
    /\ \E r \in RandomValues : random' = r
    /\ random' # random
    /\ UNCHANGED <<calls, coord, valid, pctIn, pctOut, poly>>
    /\ UNCHANGED appVars

GetHistoricalData ==
    /\ Len(calls) < MaxCalls
    /\ \E reservoirId \in Ids :
          calls' = Append(calls, [id |-> reservoirId,
                                  rnd |-> random,
                                  seed |-> seed(reservoirId),
                                  data |-> getHistoricalData(reservoirId)])
    /\ UNCHANGED <<random, coord, valid, pctIn, pctOut, poly>>
    /\ UNCHANGED appVars

NextGen == MathRandom \/ GetHistoricalData

SpecGen == Init /\ [][NextGen]_vars

----------------------------------------------------------------------------
(* Properties of the generator, under SpecGen *)

C2_Enumeration ==
    \A i \in DOMAIN calls :
        LET data == calls[i].data
        IN  /\ Len(data) = 20
            /\ \A y \in 0..4 :
                  /\ data[4 * y + 1].year = 2020 + y /\ data[4 * y + 1].season = "Winter"
                  /\ data[4 * y + 2].year = 2020 + y /\ data[4 * y + 2].season = "Summer"
                  /\ data[4 * y + 3].year = 2020 + y /\ data[4 * y + 3].season = "Monsoon"
                  /\ data[4 * y + 4].year = 2020 + y
                  /\ data[4 * y + 4].season = "Post-Monsoon"
            /\ \A a, b \in DOMAIN data :
                  (data[a].year = data[b].year /\ data[a].season = data[b].season) => a = b

C2_Witness ==
    \E i \in DOMAIN calls :
        /\ calls[i].id \in UnknownIds
        /\ calls[i].data[20].year = 2024
        /\ calls[i].data[20].season = "Post-Monsoon"

(* the capacity of the reservoir an id names, 100 when it names none *)
CapacityOf(reservoirId) ==
    CASE reservoirId = IdChembarambakkam -> 103
      [] reservoirId = IdCholavaram -> 30
      [] reservoirId = IdVeeranam -> 41
      [] reservoirId = IdPoondi -> 91
      [] reservoirId = IdRedhills -> 93
      [] reservoirId = IdKaveripakkam -> 42
      [] OTHER -> 100

(* C3: range invariant. Every generated record has 0 <= volume <=          *)
(* maxCapacity of its reservoir (100 for an unknown id) and rainfall >= 0. *)
C3_Range ==
    \A i \in DOMAIN calls :
        \A k \in DOMAIN calls[i].data :
            /\ 0 <= calls[i].data[k].volume
            /\ calls[i].data[k].volume <= CapacityOf(calls[i].id)
            /\ calls[i].data[k].rainfall >= 0

(* the clamp at 100 percent is reached: a record filled to capacity *)
C3_Witness ==
    \E i \in DOMAIN calls :
        \E k \in DOMAIN calls[i].data :
            /\ calls[i].id \in KnownIds
            /\ calls[i].data[k].volume = CapacityOf(calls[i].id)

(* C4: known-seed scenario. For "res-redhills" the record of 2020, Winter  *)
(* has volume 56, waterLevel 9.1, surfaceArea 9.03, rainfall 50 and        *)
(* cloudCover 10.                                                          *)
C4_Redhills2020Winter ==
    \A i \in DOMAIN calls :
        calls[i].id = IdRedhills =>
            calls[i].data[1] = [season |-> "Winter", year |-> 2020, volume |-> 56,
                                waterLevel |-> 91, surfaceArea |-> 903,
                                rainfall |-> 50, cloudCover |-> 10]

C4_Witness ==
    \E i \in DOMAIN calls :
        calls[i].id = IdRedhills /\ calls[i].data[1].season = "Winter"

(* the trend of a year, from the parity of the seed *)
ExpectedTrend(y, sd) == IF sd % 2 = 0 THEN (y - 2020) * (-2) ELSE (y - 2020)

(* C5: the seed is the char code of the last character of the id, 42 for   *)
(* the empty id; the trend of year Y is (Y - 2020) * -2 for an even seed   *)
(* and (Y - 2020) * +1 for an odd one. The trend is read off the Winter    *)
(* records, whose percentage is 60 + trend: the level in tenths is         *)
(* round((60 + trend) * fullLevel / 10), the volume round((60 + trend) *   *)
(* maxCapacity / 100).                                                     *)
C5_SeedAndTrend ==
    \A i \in DOMAIN calls :
        LET id == calls[i].id
            sd == calls[i].seed
        IN  /\ sd = (IF id = << >> THEN 42 ELSE id[Len(id)])
            /\ \A y \in 0..4 :
                  LET rec == calls[i].data[4 * y + 1]
                      pct == 60 + ExpectedTrend(2020 + y, sd)
                  IN  /\ 2 * 100 * rec.volume <= 2 * pct * CapacityOf(id) + 100
                      /\ 2 * 100 * rec.volume > 2 * pct * CapacityOf(id) - 100
                      /\ id \in UnknownIds => rec.waterLevel = 2 * pct

(* both parities occur, and the empty id dries up: 60 - 8 = 52 in 2024 *)
C5_Witness ==
    /\ \E i \in DOMAIN calls :
          calls[i].id = << >> /\ calls[i].seed = 42 /\ calls[i].data[17].volume = 52
    /\ \E i \in DOMAIN calls :
          calls[i].seed % 2 = 1 /\ calls[i].id \in UnknownIds
              /\ calls[i].data[17].volume = 64

(* C6: an unknown id (the empty id included) still yields the full         *)
(* 20-record series, computed with maxCapacity = 100 and fullLevel = 20:   *)
(* surfaceArea = volume / 100 * 15, and in Winter, where the percentage is *)
(* a whole number, volume is that percentage and waterLevel a fifth of it. *)
C6_UnknownIdDefaults ==
    \A i \in DOMAIN calls :
        calls[i].id \in UnknownIds =>
            /\ Len(calls[i].data) = 20
            /\ \A k \in DOMAIN calls[i].data :
                  LET rec == calls[i].data[k]
                  IN  /\ rec.surfaceArea = 15 * rec.volume
                      /\ rec.volume >= 10 /\ rec.volume <= 100
                      /\ rec.season = "Winter" =>
                            /\ rec.volume = 60 + ExpectedTrend(rec.year, calls[i].seed)
                            /\ rec.waterLevel = 2 * rec.volume

C6_Witness ==
    /\ \E i \in DOMAIN calls : calls[i].id = << >> /\ Len(calls[i].data) = 20
    /\ \E i \in DOMAIN calls :
          calls[i].id \in UnknownIds \ {<< >>} /\ Len(calls[i].data) = 20

----------------------------------------------------------------------------
(* Calls of the coordinate validator *)

IsValidCoordinate ==
    /\ \E c \in Coords :
          /\ coord' = c
          /\ valid' = [v1 |-> isValidCoordinate1(c),
                       v2 |-> isValidCoordinate2(c),
                       v3 |-> isValidCoordinate(c)]
    /\ UNCHANGED <<random, calls, pctIn, pctOut, poly>>
    /\ UNCHANGED appVars

NextVal == IsValidCoordinate

SpecVal == Init /\ [][NextVal]_vars

(* C7: validator soundness. isValidCoordinate(x) is true exactly when x    *)
(* is an array of exactly two elements that are both finite numbers, so it *)
(* is false for NaN and Infinity elements, other lengths, non-arrays and   *)
(* non-numeric elements; the three versions agree on every input.          *)
C7_ValidatorSound ==
    /\ valid.v3 = (/\ coord.t = "array"
                   /\ Len(coord.e) = 2
                   /\ \A k \in DOMAIN coord.e : coord.e[k].t = "fin")
    /\ valid.v1 = valid.v3
    /\ valid.v2 = valid.v3

(* a pair with a numeric string, rejected by all three versions *)
C7_Witness ==
    /\ coord = Arr(<<Str(13), Fin(80057)>>)
    /\ ~valid.v1 /\ ~valid.v2 /\ ~valid.v3

----------------------------------------------------------------------------
(* One render of the dashboard with a record and a reservoir: every        *)
(* percentage derived from them is computed                                *)

Render ==
    /\ \E vol \in Volumes, cap \in Capacities :
          /\ pctIn' = [volume |-> vol, maxCapacity |-> cap]
          /\ pctOut' = [v1 |-> volumePercentage1(vol, cap),
                        v2 |-> volumePercentage2(vol, cap),
                        volumePercentage |-> volumePercentage(vol, cap),
                        volPct |-> volPct(vol, cap),
                        storageVol |-> storageVolPercent(vol, cap)]
    /\ UNCHANGED <<random, calls, coord, valid, poly>>
    /\ UNCHANGED appVars

NextPct == Render

SpecPct == Init /\ [][NextPct]_vars

Rendered == pctOut.volumePercentage # Undefined

NonFinite(v) == v.t # "fin"

(* volume / maxCapacity * 100, unguarded *)
Quotient == Mul(Div(pctIn.volume, pctIn.maxCapacity), Hundred)

(* C8 as stated: volumePercentage is exactly 0 when maxCapacity is 0 or    *)
(* missing (undefined, null or NaN) or when volume is non-finite, and      *)
(* volume / maxCapacity * 100 in every other case.                         *)
C8_DivisionGuard_Original ==
    Rendered =>
        pctOut.volumePercentage =
            (IF \/ IsZero(pctIn.maxCapacity)
                \/ pctIn.maxCapacity.t \in {"undef", "null", "nan"}
                \/ NonFinite(pctIn.volume)
             THEN Fin(0)
             ELSE Quotient)

(* C8 as amended: volumePercentage is exactly 0 when volume or maxCapacity *)
(* is 0, NaN or missing, or when volume / maxCapacity * 100 is not finite  *)
(* (a non-finite volume, or an overflow); otherwise it is volume /         *)
(* maxCapacity * 100. It is never NaN or Infinity.                         *)
C8_DivisionGuard ==
    Rendered =>
        /\ pctOut.volumePercentage.t = "fin"
        /\ pctOut.volumePercentage =
              (IF \/ IsZero(pctIn.maxCapacity)
                  \/ pctIn.maxCapacity.t \in {"undef", "null", "nan"}
                  \/ IsZero(pctIn.volume)
                  \/ pctIn.volume.t \in {"undef", "null", "nan"}
                  \/ NonFinite(Quotient)
               THEN Fin(0)
               ELSE Quotient)

(* the guard acts: an infinite volume over a real capacity gives 0 *)
C8_Witness ==
    /\ pctIn.volume = PInf
    /\ pctIn.maxCapacity = Fin(93 * Milli)
    /\ pctOut.volumePercentage = Fin(0)

(* C9: every consumer-facing percentage applies the non-finite guard: the  *)
(* volumePercentage of every version of MapVisualizer, the polygon's       *)
(* volPct and the "% Capacity" of the Storage Vol card are never NaN or    *)
(* Infinity, for any volume and maxCapacity.                               *)
C9_UniversalGuard ==
    Rendered =>
        /\ pctOut.v1.t \notin {"nan", "pinf", "ninf"}
        /\ pctOut.v2.t \notin {"nan", "pinf", "ninf"}
        /\ pctOut.volumePercentage.t \notin {"nan", "pinf", "ninf"}
        /\ pctOut.volPct.t \notin {"nan", "pinf", "ninf"}
        /\ pctOut.storageVol.t \notin {"nan", "pinf", "ninf"}

----------------------------------------------------------------------------
(* Calls of generateWaterPolygon *)

(* entry: the guard on the center, then points = [] *)
GenerateWaterPolygon ==
    /\ poly.pc # "loop"
    /\ \E center \in Centers, volumePct \in VolumePcts :
          /\ coord' = center
          /\ valid' = [v1 |-> isValidCoordinate1(center),
                       v2 |-> isValidCoordinate2(center),
                       v3 |-> isValidCoordinate(center)]
          /\ poly' = [pc |-> CASE centerGuard(center) = "return" -> "done"
                                [] centerGuard(center) = "throw" -> "threw"
                                [] OTHER -> "loop",
                      center |-> center, volumePct |-> volumePct,
                      i |-> 0, length |-> 0, last |-> Undefined]
    /\ UNCHANGED <<random, calls, pctIn, pctOut>>
    /\ UNCHANGED appVars

(* one iteration of for (let i = 0; i < sides; i++) *)
PolygonPoint ==
    /\ poly.pc = "loop"
    /\ \E rnd \in RandomValues :
          LET la == lat(poly.center, poly.volumePct, poly.i, rnd)
              ln == lng(poly.center, poly.volumePct, poly.i, rnd)
          IN  /\ random' = rnd
              /\ poly' = [poly EXCEPT
                            !.i = poly.i + 1,
                            !.pc = IF poly.i + 1 < sides THEN "loop" ELSE "done",
                            !.length = IF pushed(la, ln) THEN poly.length + 1
                                       ELSE poly.length,
                            !.last = IF pushed(la, ln) THEN Arr(<<la, ln>>)
                                     ELSE poly.last]
    /\ UNCHANGED <<calls, coord, valid, pctIn, pctOut>>
    /\ UNCHANGED appVars

NextPoly == GenerateWaterPolygon \/ PolygonPoint

SpecPoly == Init /\ [][NextPoly]_vars

Returned == poly.pc = "done"

(* the point most recently pushed, if any, is a pair of finite numbers *)
PointsValid == poly.length > 0 => isValidCoordinate(poly.last)

NoOverflow ==
    \A k \in DOMAIN poly.center.e :
        Abs(poly.center.e[k].n) + (Abs(poly.volumePct.n) * 22) \div 100000 + 3 <= MaxFinite

----------------------------------------------------------------------------
(* MapVisualizer: the location every part of the map is drawn around *)

(* a reservoir object as the component receives it; only its location is   *)
(* read here, and location is undefined on an object without the property  *)
ReservoirAt(location) == [t |-> "object", n |-> 0, e |-> << >>, location |-> location]

(* the default coordinates of the first and third versions, and of the     *)
(* second one *)
fallbackLocation == Arr(<<Fin(13009), Fin(80057)>>)

fallbackLocation2 == Arr(<<Fin(13000), Fin(80000)>>)

safeReservoirLocation1(reservoir) ==
    IF ~Falsy(reservoir) /\ isValidCoordinate1(reservoir.location)
    THEN reservoir.location
    ELSE fallbackLocation

safeReservoirLocation2(reservoir) ==
    IF ~Falsy(reservoir) /\ isValidCoordinate2(reservoir.location)
    THEN reservoir.location
    ELSE fallbackLocation2

(* the location handed on whenever a reservoir is present, validated or not *)
safeReservoirLocationUnchecked(reservoir) ==
    IF ~Falsy(reservoir) THEN reservoir.location ELSE fallbackLocation

safeReservoirLocation(reservoir) ==
    IF ~Falsy(reservoir) /\ isValidCoordinate(reservoir.location)
    THEN reservoir.location
    ELSE fallbackLocation

(* waterPolygon with a well-formed record and capacity: the generator is   *)
(* called, with the safe location, when a reservoir is present and the     *)
(* safe location passes the validator *)
waterPolygonCall(reservoir, safe) ==
    IF Falsy(reservoir) \/ ~isValidCoordinate(safe)
    THEN [called |-> FALSE, center |-> Undefined]
    ELSE [called |-> TRUE, center |-> safe]

(* the component shows "Invalid Coordinates" in place of the map when the  *)
(* safe location fails the validator, and centers the map on it otherwise  *)
mapContainer(safe) ==
    IF ~isValidCoordinate(safe)
    THEN [shown |-> FALSE, center |-> Undefined]
    ELSE [shown |-> TRUE, center |-> safe]

Reservoirs == {Undefined, Null} \cup {ReservoirAt(c) : c \in Coords}

RenderMap ==
    /\ \E reservoir \in Reservoirs :
          LET safe == safeReservoirLocation(reservoir)
          IN  mapView' = [rendered |-> TRUE,
                          reservoir |-> reservoir,
                          v1 |-> safeReservoirLocation1(reservoir),
                          v2 |-> safeReservoirLocation2(reservoir),
                          safeReservoirLocation |-> safe,
                          polygon |-> waterPolygonCall(reservoir, safe),
                          map |-> mapContainer(safe)]
    /\ UNCHANGED <<genVars, reactVars, widgetVars>>

NextMap == RenderMap

SpecMap == Init /\ [][NextMap]_vars

(* a two-element array of finite numbers *)
IsPair(c) ==
    /\ c.t = "array"
    /\ Len(c.e) = 2
    /\ \A k \in DOMAIN c.e : c.e[k].t = "fin"

(* the location of the reservoir of the latest render, undefined without   *)
(* a reservoir *)
GivenLocation ==
    IF mapView.reservoir.t = "object" THEN mapView.reservoir.location ELSE Undefined

(* C11: safeReservoirLocation is always a valid coordinate: it is          *)
(* reservoir.location when that is a pair of finite numbers and the fixed  *)
(* fallback coordinate otherwise, in each version of the component; the    *)
(* polygon generator and the map are only ever given that valid location,  *)
(* never an invalid or missing reservoir.location.                         *)
C11_SafeLocation ==
    mapView.rendered =>
        /\ IsPair(mapView.safeReservoirLocation)
        /\ IsPair(mapView.v1) /\ IsPair(mapView.v2)
        /\ IF IsPair(GivenLocation)
           THEN /\ mapView.safeReservoirLocation = GivenLocation
                /\ mapView.v1 = GivenLocation
                /\ mapView.v2 = GivenLocation
           ELSE /\ mapView.safeReservoirLocation = fallbackLocation
                /\ mapView.v1 = fallbackLocation
                /\ mapView.v2 = fallbackLocation2
        /\ mapView.polygon.called =>
              /\ IsPair(mapView.polygon.center)
              /\ mapView.polygon.center = mapView.safeReservoirLocation
        /\ mapView.map.shown /\ mapView.map.center = mapView.safeReservoirLocation

(* a reservoir whose location has a NaN latitude is drawn at the fallback  *)
C11_Witness ==
    /\ mapView.rendered
    /\ mapView.reservoir = ReservoirAt(Arr(<<NaN, Fin(80057)>>))
    /\ mapView.safeReservoirLocation = fallbackLocation
    /\ mapView.polygon = [called |-> TRUE, center |-> fallbackLocation]

----------------------------------------------------------------------------
(* App: the selection, the values derived from it and the backend effect *)

(* bound on the fetchLive calls awaiting their responses at one time *)
MaxFetches == 2

(* RESERVOIRS.find(r => r.id === state.selectedReservoirId) || RESERVOIRS[0] *)
selectedReservoir(s) ==
    LET hits == find(s.selectedReservoirId)
    IN  IF hits = {} THEN RESERVOIRS[1]
        ELSE RESERVOIRS[CHOOSE k \in hits : \A j \in hits : k <= j]

historicalData(s) == getHistoricalData(selectedReservoir(s).id)

(* data.find(d => d.year === year && d.season === season) || data[0] *)
findRecord(data, year, season) ==
    LET hits == {k \in DOMAIN data : data[k].year = year /\ data[k].season = season}
    IN  IF hits = {} THEN data[1]
        ELSE data[CHOOSE k \in hits : \A j \in hits : k <= j]

currentData(s) == findRecord(historicalData(s), s.year, s.season)

comparisonData(s) == findRecord(historicalData(s), s.compareYear, s.compareSeason)

(* the years of the series and the year after the last one *)
availableYearsExtended(s) ==
    LET data == historicalData(s)
    IN  {data[k].year : k \in DOMAIN data} \cup {endYear + 1}

(* the years of the series, without duplicates *)
availableYears(s) ==
    LET data == historicalData(s)
    IN  {data[k].year : k \in DOMAIN data}

availableSeasons == {seasons[k] : k \in DOMAIN seasons}

MinOf(S) == CHOOSE m \in S : \A n \in S : m <= n

(* the dependencies of the fetchLive effect; currentData.volume and        *)
(* historicalData change only when one of these three does *)
deps(s) == <<s.year, s.season, selectedReservoir(s).id>>

(* what a fetchLive call asks the backend about *)
request(s) == [id |-> selectedReservoir(s).id, year |-> s.year, season |-> s.season]

(* an effect with a cleanup that abandons the calls still awaited *)
fetchLiveCancelling(s, status) ==
    IF status # "online"
    THEN /\ satelliteData' = Null
         /\ mlForecast' = Null
         /\ UNCHANGED <<isLoadingBackend, fetches, latest>>
    ELSE /\ Len(fetches) < MaxFetches
         /\ isLoadingBackend' = TRUE
         /\ fetches' = <<request(s)>>
         /\ latest' = [latest EXCEPT !.issued = "pending"]
         /\ UNCHANGED <<satelliteData, mlForecast>>

(* the synchronous part of fetchLive, run by the effect for selection s    *)
(* and backend status status: off line it clears the satellite data and    *)
(* the forecast; on line it raises the spinner and sends the three calls   *)
fetchLive(s, status) ==
    IF status # "online"
    THEN /\ satelliteData' = Null
         /\ mlForecast' = Null
         /\ UNCHANGED <<isLoadingBackend, fetches, latest>>
    ELSE /\ Len(fetches) < MaxFetches
         /\ isLoadingBackend' = TRUE
         /\ fetches' = Append(fetches, request(s))
         /\ latest' = [latest EXCEPT !.issued = "pending"]
         /\ UNCHANGED <<satelliteData, mlForecast>>

(* { ...newState, ...prev }: the previous values win *)
mergeSwapped(prev, newState) ==
    [f \in DOMAIN prev \cup DOMAIN newState |->
        IF f \in DOMAIN prev THEN prev[f] ELSE newState[f]]

(* { ...prev, ...newState } *)
merge(prev, newState) ==
    [f \in DOMAIN prev \cup DOMAIN newState |->
        IF f \in DOMAIN newState THEN newState[f] ELSE prev[f]]


(* setState(prev => ({ ...prev, ...newState })), the render that follows   *)
(* and the fetchLive effect, which runs when one of its dependencies has   *)
(* changed *)
setState(newState) ==
    LET next == merge(state, newState)
    IN  /\ state' = next
        /\ IF deps(next) # deps(state)
           THEN fetchLive(next, backendStatus)
           ELSE UNCHANGED backendVars

(* the handler without its second statement: the report stays *)
handleStateChangeKeeping(op, newState) ==
    /\ setState(newState)
    /\ lastOp' = [op |-> op, p |-> newState, hadReport |-> ~Falsy(aiAnalysis)]
    /\ UNCHANGED <<aiAnalysis, isGeneratingReport, backendStatus, mlAnomaly, reports>>
    /\ UNCHANGED <<genVars, mapView, widgetVars>>

(* handleStateChange, called by the control op with the partial state      *)
(* newState *)
handleStateChange(op, newState) ==
    /\ setState(newState)
    /\ aiAnalysis' = Null
    /\ lastOp' = [op |-> op, p |-> newState, hadReport |-> ~Falsy(aiAnalysis)]
    /\ UNCHANGED <<isGeneratingReport, backendStatus, mlAnomaly, reports>>
    /\ UNCHANGED <<genVars, mapView, widgetVars>>

(* the comparison year without the lower clamp *)
toggleYearUnclamped(s) ==
    IF s.isComparisonMode THEN s.compareYear ELSE s.year - 1

(* toggleComparison: the comparison year it passes on *)
toggleYear(s) ==
    IF s.isComparisonMode THEN s.compareYear
    ELSE Max(MinOf(availableYears(s)), s.year - 1)

(* the primary season whichever way the switch goes *)
toggleSeasonAlways(s) == s.season

(* toggleComparison: the comparison season it passes on *)
toggleSeason(s) ==
    IF s.isComparisonMode THEN s.compareSeason ELSE s.season

(* the controls of DashboardControls and the close button of the           *)
(* comparison map; the comparison selectors and the close button exist     *)
(* only in comparison mode *)
SelectReservoir(id) ==
    handleStateChange("selectReservoir", [selectedReservoirId |-> id])

SelectYear(y) == handleStateChange("selectYear", [year |-> y])

SelectSeason(s) == handleStateChange("selectSeason", [season |-> s])

SelectCompareYear(y) ==
    /\ state.isComparisonMode
    /\ handleStateChange("selectCompareYear", [compareYear |-> y])

SelectCompareSeason(s) ==
    /\ state.isComparisonMode
    /\ handleStateChange("selectCompareSeason", [compareSeason |-> s])

ToggleComparison ==
    handleStateChange("toggleComparison",
                      [isComparisonMode |-> ~state.isComparisonMode,
                       compareYear |-> toggleYear(state),
                       compareSeason |-> toggleSeason(state)])

CloseComparison ==
    /\ state.isComparisonMode
    /\ handleStateChange("closeComparison", [isComparisonMode |-> FALSE])

(* every control at the user's disposal, with every value it offers *)
NextSel ==
    \/ \E id \in KnownIds : SelectReservoir(id)
    \/ \E y \in availableYears(state) : SelectYear(y)
    \/ \E s \in availableSeasons : SelectSeason(s)
    \/ \E y \in availableYears(state) : SelectCompareYear(y)
    \/ \E s \in availableSeasons : SelectCompareSeason(s)
    \/ ToggleComparison
    \/ CloseComparison

SpecSel == Init /\ [][NextSel]_vars

Fields == {"selectedReservoirId", "year", "season",
           "isComparisonMode", "compareYear", "compareSeason"}

(* the controls, all of which call handleStateChange *)
Controls == {"selectReservoir", "selectYear", "selectSeason", "selectCompareYear",
             "selectCompareSeason", "toggleComparison", "closeComparison"}

(* C12: handleStateChange(p) is a shallow merge: after it every field of   *)
(* the selection named in p has the value given in p and every other field *)
(* keeps its previous value, whatever calls came before; a step that is    *)
(* not a call of handleStateChange leaves the selection as it is.          *)
C12_ShallowMerge ==
    [][ /\ DOMAIN state' = Fields
        /\ IF lastOp'.op \in Controls
           THEN \A f \in Fields :
                   IF f \in DOMAIN lastOp'.p
                   THEN state'[f] = lastOp'.p[f]
                   ELSE state'[f] = state[f]
           ELSE state' = state ]_vars

(* a change of the primary year alone, on a selection that had already     *)
(* moved away from the initial one in its other fields *)
C12_Witness ==
    /\ lastOp.op = "selectYear" /\ lastOp.p = [year |-> 2021]
    /\ state.year = 2021
    /\ state.selectedReservoirId = IdRedhills
    /\ state.season = "Summer"
    /\ state.isComparisonMode
    /\ state.compareSeason = "Winter"

(* C14: toggling the comparison on. When comparison mode is off,           *)
(* toggleComparison turns it on and seeds compareYear with                 *)
(* max(min(availableYears), year - 1) and compareSeason with the primary   *)
(* season: 2023 from the primary year 2024, 2020 from 2020.                *)
C14_ToggleOn ==
    [][ (lastOp'.op = "toggleComparison" /\ ~state.isComparisonMode) =>
            /\ state'.isComparisonMode
            /\ state'.compareYear = Max(startYear, state.year - 1)
            /\ state'.compareSeason = state.season
            /\ state.year = 2024 => state'.compareYear = 2023
            /\ state.year = 2020 => state'.compareYear = 2020 ]_vars

(* comparison switched on from the first year of the series *)
C14_Witness ==
    /\ lastOp.op = "toggleComparison"
    /\ state.isComparisonMode
    /\ state.year = 2020 /\ state.compareYear = 2020
    /\ state.season = "Summer" /\ state.compareSeason = "Summer"

(* C15: toggling the comparison off, by toggleComparison or by the close   *)
(* button of the comparison map, sets isComparisonMode to false and leaves *)
(* compareYear, compareSeason and the primary fields as they were.         *)
C15_ToggleOff ==
    [][ (lastOp'.op \in {"toggleComparison", "closeComparison"}
             /\ state.isComparisonMode) =>
            /\ ~state'.isComparisonMode
            /\ \A f \in Fields \ {"isComparisonMode"} : state'[f] = state[f] ]_vars

(* comparison switched off with a comparison date the user had picked *)
C15_Witness ==
    /\ lastOp.op = "toggleComparison"
    /\ ~state.isComparisonMode
    /\ state.year = 2024 /\ state.compareYear = 2021
    /\ state.season = "Winter" /\ state.compareSeason = "Monsoon"

(* C16: disabling and re-enabling comparison mode does not reset the       *)
(* comparison date: when comparison was just turned off (which leaves      *)
(* compareYear and compareSeason as they were) and is turned on again with *)
(* nothing in between, compareYear and compareSeason keep their values.    *)
C16_ReenableKeeps ==
    [][ (/\ lastOp.op \in {"toggleComparison", "closeComparison"}
         /\ ~state.isComparisonMode
         /\ lastOp'.op = "toggleComparison") =>
            /\ state'.compareYear = state.compareYear
            /\ state'.compareSeason = state.compareSeason ]_vars

----------------------------------------------------------------------------
(* services/api.ts and services/geminiService.ts: the report, and App's    *)
(* handleGenerateAI around it *)

(* the outcome of an await that throws *)
Thrown == [t |-> "thrown", n |-> 0, e |-> << >>]

(* what the backend can answer to POST /api/ai/report about request req,   *)
(* and what the fetch can come to *)
BackendReport(req) ==
    [t |-> "object", riskLevel |-> "High", floodProbability |-> 80,
     droughtSeverity |-> "Moderate", source |-> "backend", for |-> req,
     isAnomaly |-> Undefined]

ReportResponses(req) ==
    { [kind |-> "network_error", json |-> Undefined],
      [kind |-> "http_error", json |-> Undefined],
      [kind |-> "bad_json", json |-> Undefined],
      [kind |-> "ok", json |-> Null],
      [kind |-> "ok", json |-> BackendReport(req)] }

(* what ai.models.generateContent can come to: an error, a response        *)
(* without text, a text that is not JSON, or the JSON of a report *)
LocalReport(req) ==
    [t |-> "object", riskLevel |-> "Low", floodProbability |-> 10,
     droughtSeverity |-> "Severe", source |-> "local", for |-> req,
     isAnomaly |-> Undefined]

GenerateContentOutcomes(req) ==
    { [kind |-> "error", text |-> Undefined],
      [kind |-> "ok", text |-> Undefined],
      [kind |-> "ok", text |-> Str(0)],
      [kind |-> "ok", text |-> LocalReport(req)] }

(* the default of generateLocalFallback *)
cannedDefault(req) ==
    [t |-> "object", riskLevel |-> "Moderate", floodProbability |-> 45,
     droughtSeverity |-> "Normal", source |-> "default", for |-> req,
     isAnomaly |-> Undefined]

(* fetchAIReport without its try/catch: every failure is thrown *)
fetchAIReportThrowing(response) ==
    IF response.kind = "ok" THEN response.json ELSE Thrown

(* fetchAIReport: the JSON of an ok response, null for a network error, a  *)
(* status other than ok and a body that is not JSON *)
fetchAIReport(response) ==
    IF response.kind = "ok" THEN response.json ELSE Null

(* generateLocalFallback: the parsed text of the response, the default     *)
(* when the call throws, the response has no text or JSON.parse throws *)
generateLocalFallback(req, outcome) ==
    IF outcome.kind = "ok" /\ outcome.text.t = "object"
    THEN outcome.text
    ELSE cannedDefault(req)

(* generateHydrologicalReport; an await of a call that throws makes it     *)
(* throw in turn *)
generateHydrologicalReport(req, response, outcome) ==
    LET backendResult == fetchAIReport(response)
    IN  IF backendResult.t = "thrown" THEN Thrown
        ELSE IF ~Falsy(backendResult) THEN backendResult
        ELSE generateLocalFallback(req, outcome)

(* handleGenerateAI up to its await: the flag is raised and the report is  *)
(* requested for the reservoir and the record on display *)
handleGenerateAI(op) ==
    /\ isGeneratingReport' = TRUE
    /\ reports' = Append(reports, [for |-> request(state), mlAnomaly |-> mlAnomaly])
    /\ lastOp' = [op |-> op, p |-> NoArgument, hadReport |-> ~Falsy(aiAnalysis)]
    /\ UNCHANGED <<state, aiAnalysis, backendStatus, mlAnomaly, backendVars>>
    /\ UNCHANGED <<genVars, mapView, widgetVars>>

(* the Generate Report button left enabled while a report is being         *)
(* generated *)
GenerateReportUnguarded ==
    /\ Falsy(aiAnalysis)
    /\ Len(reports) < 2
    /\ handleGenerateAI("generateReport")

(* the Generate Report button of AIInsights, disabled while a report is    *)
(* being generated and when one is on display *)
GenerateReport ==
    /\ ~isGeneratingReport
    /\ Falsy(aiAnalysis)
    /\ handleGenerateAI("generateReport")

(* the Download Report button, disabled while a report is being generated: *)
(* it prints the report on display, or generates one first *)
DownloadReport ==
    /\ ~isGeneratingReport
    /\ IF ~Falsy(aiAnalysis)
       THEN /\ lastOp' = [op |-> "print", p |-> NoArgument, hadReport |-> TRUE]
            /\ UNCHANGED <<state, aiAnalysis, isGeneratingReport, backendStatus,
                           mlAnomaly, backendVars, reports>>
            /\ UNCHANGED <<genVars, mapView, widgetVars>>
       ELSE handleGenerateAI("downloadReport")

(* handleGenerateAI from its await on: the report is stamped with the      *)
(* anomaly flag the handler was created with and stored; a rejection is    *)
(* logged; the flag is lowered either way *)
ReportDone ==
    \E k \in DOMAIN reports :
        \E response \in ReportResponses(reports[k].for),
           outcome \in GenerateContentOutcomes(reports[k].for) :
            LET result == generateHydrologicalReport(reports[k].for, response, outcome)
            IN  /\ aiAnalysis' =
                      IF result.t = "thrown" THEN aiAnalysis
                      ELSE IF Falsy(result) THEN result
                      ELSE [result EXCEPT !.isAnomaly = reports[k].mlAnomaly]
                /\ isGeneratingReport' = FALSE
                /\ reports' = SubSeq(reports, 1, k - 1) \o SubSeq(reports, k + 1, Len(reports))
                /\ lastOp' = [op |-> IF result.t = "thrown" THEN "reportFailed"
                                     ELSE "reportDone",
                              p |-> [response |-> response.kind, json |-> response.json.t,
                                     outcome |-> outcome.kind, text |-> outcome.text.t],
                              hadReport |-> ~Falsy(aiAnalysis)]
                /\ UNCHANGED <<state, backendStatus, mlAnomaly, backendVars>>
                /\ UNCHANGED <<genVars, mapView, widgetVars>>

(* the dashboard with its report, on a part of the selection *)
ReportYears == {2023, 2024}

ReportIds == {IdChembarambakkam, IdRedhills}

NextReport ==
    \/ \E id \in ReportIds : SelectReservoir(id)
    \/ \E y \in ReportYears : SelectYear(y)
    \/ ToggleComparison
    \/ CloseComparison
    \/ GenerateReport
    \/ DownloadReport
    \/ ReportDone

SpecReport == Init /\ [][NextReport]_vars

(* C13: every call of handleStateChange, by whichever control and even     *)
(* with values equal to the current ones, clears the stored AI analysis:   *)
(* immediately after the call aiAnalysis is null.                          *)
C13_AnalysisCleared ==
    lastOp.op \in Controls => aiAnalysis = Null

(* a change of reservoir that found a report on display and discarded it *)
C13_Witness ==
    /\ lastOp.op = "selectReservoir"
    /\ lastOp.hadReport
    /\ aiAnalysis = Null

(* C20: generateHydrologicalReport returns the backend's report when       *)
(* fetchAIReport succeeds; when the backend call fails it returns the      *)
(* report of the local AI call, and when that fails too the canned default *)
(* (Moderate, 45, Normal); for every combination of failures the call      *)
(* resolves with a report and never rejects.                               *)
C20_ReportFallback ==
    lastOp.op \in {"reportDone", "reportFailed"} =>
        LET backendOk == lastOp.p.response = "ok" /\ lastOp.p.json = "object"
            localOk == lastOp.p.outcome = "ok" /\ lastOp.p.text = "object"
        IN  /\ lastOp.op = "reportDone"
            /\ aiAnalysis.t = "object"
            /\ aiAnalysis.riskLevel \in {"Low", "Moderate", "High", "Critical"}
            /\ aiAnalysis.source =
                  IF backendOk THEN "backend" ELSE IF localOk THEN "local" ELSE "default"
            /\ aiAnalysis.source = "default" =>
                  /\ aiAnalysis.riskLevel = "Moderate"
                  /\ aiAnalysis.floodProbability = 45
                  /\ aiAnalysis.droughtSeverity = "Normal"

(* the backend unreachable and the local AI call failing: the default *)
C20_Witness ==
    /\ lastOp.op = "reportDone"
    /\ lastOp.p.response = "network_error"
    /\ lastOp.p.outcome = "error"
    /\ aiAnalysis.source = "default"
    /\ aiAnalysis.floodProbability = 45

----------------------------------------------------------------------------
(* services/api.ts: the three calls of fetchLive, and App's fetchLive from *)
(* its await on *)

(* what the backend can answer about request req, and what each fetch can  *)
(* come to; areas and volumes in thousandths *)
SatelliteResult(req, area, simulation) ==
    [t |-> "object", surface_area_km2 |-> area, is_simulation |-> simulation,
     for |-> req]

SatelliteResponses(req) ==
    { [kind |-> "network_error", json |-> Undefined],
      [kind |-> "http_error", json |-> [t |-> "object", detail |-> Str(0)]],
      [kind |-> "ok", json |-> SatelliteResult(req, Fin(12340), False)],
      [kind |-> "ok", json |-> SatelliteResult(req, Fin(0), True)] }

AnomalyResponses ==
    { [kind |-> "network_error", json |-> Undefined],
      [kind |-> "http_error", json |-> [t |-> "object", detail |-> Str(0)]],
      [kind |-> "ok", json |-> [t |-> "object", is_anomaly |-> True]],
      [kind |-> "ok", json |-> [t |-> "object", is_anomaly |-> False]] }

ForecastResponses ==
    { [kind |-> "network_error", json |-> Undefined],
      [kind |-> "http_error", json |-> [t |-> "object", detail |-> Str(0)]],
      [kind |-> "ok", json |-> [t |-> "object", predicted_volume |-> Fin(55000)]],
      [kind |-> "ok", json |-> [t |-> "object", predicted_volume |-> Fin(0)]] }

(* fetchSatelliteAnalysis without the test of response.ok *)
fetchSatelliteAnalysisUnchecked(response) ==
    IF response.kind = "network_error" THEN Null ELSE response.json

(* fetchSatelliteAnalysis: the body of an ok response, null otherwise *)
fetchSatelliteAnalysis(response) ==
    IF response.kind = "ok" THEN response.json ELSE Null

(* checkMLAnomaly: the body of any response, whatever its status; the      *)
(* offline answer when the fetch fails *)
checkMLAnomaly(response) ==
    IF response.kind = "network_error"
    THEN [t |-> "object", is_anomaly |-> False]
    ELSE response.json

(* fetchMLForecast without its try/catch *)
fetchMLForecastThrowing(response) ==
    CASE response.kind = "ok" -> response.json
      [] response.kind = "http_error" -> Null
      [] OTHER -> Thrown

(* fetchMLForecast: the body of an ok response, null otherwise *)
fetchMLForecast(response) ==
    IF response.kind = "ok" THEN response.json ELSE Null

(* obj?.field *)
OptionalField(obj, field) ==
    IF obj.t \in {"null", "undef"} THEN Undefined
    ELSE IF field \in DOMAIN obj THEN obj[field]
    ELSE Undefined

(* a || b *)
Or(a, b) == IF Falsy(a) THEN b ELSE a

(* the initial request to the backend root, answered or failed: the status *)
(* is settled once, and the fetchLive effect runs again for it *)
BackendChecked(status) ==
    /\ backendStatus = "checking"
    /\ backendStatus' = status
    /\ fetchLive(state, status)
    /\ lastOp' = [op |-> "backendChecked", p |-> NoArgument,
                  hadReport |-> ~Falsy(aiAnalysis)]
    /\ UNCHANGED <<state, aiAnalysis, isGeneratingReport, mlAnomaly, reports>>
    /\ UNCHANGED <<genVars, mapView, widgetVars>>

(* whether the three calls of a fetch all failed *)
AllFailed(satellite, anomaly, forecast) ==
    satellite.kind # "ok" /\ anomaly.kind # "ok" /\ forecast.kind # "ok"

(* fetchLive from its await on, for any of the calls awaited: the three    *)
(* results are stored, or the rejection of Promise.all is logged, and the  *)
(* spinner is lowered either way *)
FetchLiveDone ==
    \E k \in DOMAIN fetches :
        \E satellite \in SatelliteResponses(fetches[k]),
           anomaly \in AnomalyResponses,
           forecast \in ForecastResponses :
            LET satResult == fetchSatelliteAnalysis(satellite)
                anomalyResult == checkMLAnomaly(anomaly)
                forecastResult == fetchMLForecast(forecast)
                rejected == Thrown \in {satResult, anomalyResult, forecastResult}
                outcome == IF AllFailed(satellite, anomaly, forecast)
                           THEN "allFailed" ELSE "someOk"
            IN  /\ IF rejected
                   THEN UNCHANGED <<satelliteData, mlAnomaly, mlForecast>>
                   ELSE /\ satelliteData' = satResult
                        /\ mlAnomaly' = Or(OptionalField(anomalyResult, "is_anomaly"), False)
                        /\ mlForecast' = Or(OptionalField(forecastResult, "predicted_volume"), Null)
                /\ isLoadingBackend' = FALSE
                /\ fetches' = SubSeq(fetches, 1, k - 1) \o SubSeq(fetches, k + 1, Len(fetches))
                /\ latest' = [issued |-> IF k = Len(fetches) /\ latest.issued = "pending"
                                         THEN outcome ELSE latest.issued,
                              completed |-> outcome]
                /\ lastOp' = [op |-> IF rejected THEN "fetchFailed" ELSE "fetchDone",
                              p |-> [for |-> fetches[k], satellite |-> satellite,
                                     anomaly |-> anomaly, forecast |-> forecast],
                              hadReport |-> ~Falsy(aiAnalysis)]
                /\ UNCHANGED <<state, aiAnalysis, isGeneratingReport, backendStatus, reports>>
                /\ UNCHANGED <<genVars, mapView, widgetVars>>

(* the satellite surface area taken as it comes, zero included *)
displayDataNoDefault(s, satellite) ==
    IF Falsy(satellite) THEN currentData(s)
    ELSE [currentData(s) EXCEPT !.surfaceArea = satellite.surface_area_km2.n \div 10]

(* the record on display: the local record, with the surface area of the   *)
(* satellite analysis when there is one and it is not zero; areas of the    *)
(* series are in hundredths *)
displayData(s, satellite) ==
    IF Falsy(satellite) THEN currentData(s)
    ELSE [currentData(s) EXCEPT
             !.surfaceArea = IF Falsy(satellite.surface_area_km2)
                             THEN currentData(s).surfaceArea
                             ELSE satellite.surface_area_km2.n \div 10]

(* the isSimulation property of the primary map *)
isSimulation(satellite) ==
    IF Falsy(satellite) THEN True ELSE satellite.is_simulation

(* the dashboard with its backend, on two years of the selection *)
BackendYears == {2023, 2024}

NextBackend ==
    \/ \E status \in {"online", "offline"} : BackendChecked(status)
    \/ \E y \in BackendYears : SelectYear(y)
    \/ FetchLiveDone

SpecBackend == Init /\ [][NextBackend]_vars

(* everything the backend feeds is at its fallback: no satellite data, no  *)
(* forecast, no anomaly, the local record on display, the map flagged as a *)
(* simulation, and no error out of fetchLive *)
BackendFallback ==
    /\ satelliteData = Null
    /\ mlForecast = Null
    /\ mlAnomaly = False
    /\ displayData(state, satelliteData) = currentData(state)
    /\ displayData(state, satelliteData).surfaceArea = currentData(state).surfaceArea
    /\ isSimulation(satelliteData) = True
    /\ lastOp.op # "fetchFailed"

(* C17 as stated: whenever backendStatus is not 'online', or all three     *)
(* backend calls of the latest fetch (the one issued last) failed, the     *)
(* satellite data and the forecast are null, the anomaly flag is false,    *)
(* the displayed record is the local one, the map is flagged as a          *)
(* simulation and no error escapes fetchLive.                              *)
C17_BackendAbsent_Original ==
    (backendStatus # "online" \/ latest.issued = "allFailed") => BackendFallback

(* C17 as amended: the same, for a backend that is not 'online' and for    *)
(* the fetch that completed last (a fetch issued earlier can complete      *)
(* after the latest one and store its own results).                        *)
C17_BackendAbsent ==
    (backendStatus # "online" \/ latest.completed = "allFailed") => BackendFallback

(* on line, the fetch completed last got an error status from all three    *)
(* endpoints *)
C17_Witness ==
    /\ backendStatus = "online"
    /\ latest.completed = "allFailed"
    /\ lastOp.op = "fetchDone"
    /\ lastOp.p.satellite.kind = "http_error"
    /\ lastOp.p.anomaly.kind = "http_error"
    /\ lastOp.p.forecast.kind = "http_error"
    /\ satelliteData = Null /\ mlForecast = Null /\ mlAnomaly = False

(* C18 as stated: the three calls fail independently: whichever of them    *)
(* succeed and fail, each successful call's result is stored in its state  *)
(* variable and each failed call leaves the fallback there (null, false,   *)
(* null), and fetchLive does not throw.                                    *)
C18_IndependentCalls_Original ==
    lastOp.op \in {"fetchDone", "fetchFailed"} =>
        /\ lastOp.op = "fetchDone"
        /\ satelliteData = IF lastOp.p.satellite.kind = "ok"
                           THEN lastOp.p.satellite.json ELSE Null
        /\ mlAnomaly = IF lastOp.p.anomaly.kind = "ok"
                       THEN lastOp.p.anomaly.json.is_anomaly ELSE False
        /\ mlForecast = IF lastOp.p.forecast.kind = "ok"
                        THEN lastOp.p.forecast.json.predicted_volume ELSE Null

(* C18 as amended: the same, except that a successful forecast of 0 is     *)
(* stored as null, like a failed one.                                      *)
C18_IndependentCalls ==
    lastOp.op \in {"fetchDone", "fetchFailed"} =>
        /\ lastOp.op = "fetchDone"
        /\ satelliteData = IF lastOp.p.satellite.kind = "ok"
                           THEN lastOp.p.satellite.json ELSE Null
        /\ mlAnomaly = IF lastOp.p.anomaly.kind = "ok"
                       THEN lastOp.p.anomaly.json.is_anomaly ELSE False
        /\ mlForecast = IF lastOp.p.forecast.kind = "ok"
                           /\ lastOp.p.forecast.json.predicted_volume # Fin(0)
                        THEN lastOp.p.forecast.json.predicted_volume ELSE Null

(* the satellite call fails and the forecast call gets an error status     *)
(* while the anomaly call succeeds: the anomaly flag alone is set *)
C18_Witness ==
    /\ lastOp.op = "fetchDone"
    /\ lastOp.p.satellite.kind = "network_error"
    /\ lastOp.p.anomaly.kind = "ok"
    /\ lastOp.p.forecast.kind = "http_error"
    /\ satelliteData = Null /\ mlAnomaly = True /\ mlForecast = Null

(* C19: no cancellation. A change of the selection while a fetch is in     *)
(* flight starts a new fetch (the backend being on line) and leaves the    *)
(* earlier ones in flight; every fetch that completes stores its results,  *)
(* so the stored ones are those of the fetch that completed last and can   *)
(* be those of a request issued for an earlier selection.                  *)
C19_NoCancellation ==
    [][ /\ lastOp'.op \in Controls =>
              /\ Len(fetches') >= Len(fetches)
              /\ SubSeq(fetches', 1, Len(fetches)) = fetches
              /\ (deps(state') # deps(state) /\ backendStatus = "online") =>
                    fetches' = Append(fetches, request(state'))
        /\ lastOp'.op = "fetchDone" =>
              /\ Len(fetches') = Len(fetches) - 1
              /\ satelliteData' = IF lastOp'.p.satellite.kind = "ok"
                                  THEN lastOp'.p.satellite.json ELSE Null ]_vars

(* no fetch in flight, and the satellite data on display answer a request  *)
(* for another date than the selected one *)
C19_Witness ==
    /\ backendStatus = "online"
    /\ fetches = << >>
    /\ ~isLoadingBackend
    /\ satelliteData # Null
    /\ satelliteData.for # request(state)
    /\ satelliteData.for.year = 2024 /\ state.year = 2023

----------------------------------------------------------------------------
(* The record on display and the series it comes from *)

(* C21: the backend can override only the surface area. The displayed      *)
(* record has the season, year, volume, waterLevel, rainfall and           *)
(* cloudCover of the locally generated record for the current selection;   *)
(* its surfaceArea is the backend's surface_area_km2 when satelliteData    *)
(* holds a non-zero one and the local surfaceArea otherwise; the local     *)
(* record is still the one the generator yields for the selection.         *)
C21_OnlySurfaceArea ==
    LET local == currentData(state)
        shown == displayData(state, satelliteData)
    IN  /\ \A f \in {"season", "year", "volume", "waterLevel", "rainfall", "cloudCover"} :
              shown[f] = local[f]
        /\ shown.surfaceArea =
              IF satelliteData.t = "object" /\ satelliteData.surface_area_km2 # Fin(0)
              THEN satelliteData.surface_area_km2.n \div 10
              ELSE local.surfaceArea
        /\ local = findRecord(getHistoricalData(state.selectedReservoirId),
                              state.year, state.season)

(* satellite data with an area of 12.34 km2 on display in place of the     *)
(* local area *)
C21_Witness ==
    /\ satelliteData.t = "object"
    /\ satelliteData.surface_area_km2 = Fin(12340)
    /\ displayData(state, satelliteData).surfaceArea = 1234
    /\ currentData(state).surfaceArea # 1234
    /\ displayData(state, satelliteData).volume = currentData(state).volume

----------------------------------------------------------------------------
(* The polygon generator against the validator *)

(* C22: generateWaterPolygon accepts exactly the centers the validator     *)
(* accepts: for a center that isValidCoordinate rejects, arrays of another *)
(* length than 2 with finite first elements included, the call returns     *)
(* the empty list without computing a point from it.                       *)
C22_GuardIsValidator ==
    (poly.pc # "idle" /\ poly.center = coord /\ ~valid.v3) =>
        (poly.pc = "done" /\ poly.i = 0 /\ poly.length = 0)

----------------------------------------------------------------------------
(* The derived metrics of a record *)

(* fullLevel of a reservoir in tenths of a metre, 20 m for an unknown id *)
FullLevelOf(reservoirId) ==
    CASE reservoirId = IdChembarambakkam -> 259
      [] reservoirId = IdCholavaram -> 185
      [] reservoirId = IdVeeranam -> 145
      [] reservoirId = IdPoondi -> 420
      [] reservoirId = IdRedhills -> 152
      [] reservoirId = IdKaveripakkam -> 128
      [] OTHER -> 200

(* r is num / den rounded to the nearest integer, halves upwards; den > 0 *)
IsRounded(r, num, den) ==
    /\ 2 * r * den <= 2 * num + den
    /\ 2 * r * den > 2 * num - den

(* C23 as stated: every record's waterLevel is (volume / maxCapacity) *    *)
(* fullLevel rounded to one decimal and its surfaceArea (volume /          *)
(* maxCapacity) * 15 rounded to two decimals, both from the stored,        *)
(* rounded volume.                                                         *)
C23_DerivedFromVolume_Original ==
    \A i \in DOMAIN calls :
        \A k \in DOMAIN calls[i].data :
            LET rec == calls[i].data[k]
            IN  /\ IsRounded(rec.waterLevel, rec.volume * FullLevelOf(calls[i].id),
                             CapacityOf(calls[i].id))
                /\ IsRounded(rec.surfaceArea, rec.volume * 15 * 100,
                             CapacityOf(calls[i].id))

(* C23 as amended: surfaceArea is (volume / maxCapacity) * 15 rounded to   *)
(* two decimals, from the stored volume; waterLevel is the percentage the  *)
(* volume was rounded from, over 100, times fullLevel, rounded to one      *)
(* decimal, which lies within 0.05 + fullLevel / (2 * maxCapacity) of      *)
(* (volume / maxCapacity) * fullLevel.                                     *)
C23_DerivedFromVolume ==
    \A i \in DOMAIN calls :
        \A k \in DOMAIN calls[i].data :
            LET rec == calls[i].data[k]
                C == CapacityOf(calls[i].id)
                F == FullLevelOf(calls[i].id)
                pct == volume(rec.season, rec.year, (k - 1) % 4, calls[i].seed)
            IN  /\ IsRounded(rec.surfaceArea, rec.volume * 15 * 100, C)
                /\ IsRounded(rec.volume, pct * C, 100 * Scale)
                /\ IsRounded(rec.waterLevel, pct * F, 100 * Scale)
                /\ 2 * rec.waterLevel * C - 2 * rec.volume * F <= C + F
                /\ 2 * rec.volume * F - 2 * rec.waterLevel * C <= C + F

(* res-redhills, Winter 2020: 60 percent gives the volume 56 and the level *)
(* 9.1, where 56 / 93 * 15.2 rounds to 9.2 *)
C23_Witness ==
    \E i \in DOMAIN calls :
        /\ calls[i].id = IdRedhills
        /\ calls[i].data[1].volume = 56
        /\ calls[i].data[1].waterLevel = 91
        /\ IsRounded(92, 56 * 152, 93)

(* C24: Winter records carry no noise. For every id and every year Y of    *)
(* 2020..2024 the Winter record comes from the percentage 60 + trend(Y):   *)
(* its volume is round((60 + trend) / 100 * maxCapacity), its rainfall 50  *)
(* and its cloudCover 10; from one year to the next the Winter volume      *)
(* does not decrease when the seed is odd and does not increase when it    *)
(* is even.                                                                *)
C24_WinterNoNoise ==
    \A i \in DOMAIN calls :
        \A y \in 0..4 :
            LET rec == calls[i].data[4 * y + 1]
                t == IF calls[i].seed % 2 = 0 THEN -2 * y ELSE y
            IN  /\ rec.season = "Winter" /\ rec.year = 2020 + y
                /\ IsRounded(rec.volume, (60 + t) * CapacityOf(calls[i].id), 100)
                /\ rec.rainfall = 50
                /\ rec.cloudCover = 10
                /\ y > 0 =>
                      IF calls[i].seed % 2 = 1
                      THEN calls[i].data[4 * y - 3].volume <= rec.volume
                      ELSE calls[i].data[4 * y - 3].volume >= rec.volume

(* an even and an odd seed: the Winter volume of the empty id (seed 42)    *)
(* falls from 60 in 2020 to 52 in 2024 and that of res-redhills (115)      *)
(* rises *)
C24_Witness ==
    /\ \E i \in DOMAIN calls :
          /\ calls[i].id = << >>
          /\ calls[i].data[1].volume = 60 /\ calls[i].data[17].volume = 52
          /\ calls[i].data[17].rainfall = 50
    /\ \E i \in DOMAIN calls :
          /\ calls[i].id = IdRedhills
          /\ calls[i].data[17].volume > calls[i].data[1].volume

----------------------------------------------------------------------------
(* Interleavings of the selection with the calls awaited *)

(* C25: the stored AI analysis always belongs to the current selection:    *)
(* whenever aiAnalysis is not null it was generated for the reservoir,     *)
(* year and season now selected, under every interleaving of selection     *)
(* changes and report completions.                                         *)
C25_AnalysisIsCurrent ==
    aiAnalysis # Null => aiAnalysis.for = request(state)

(* C26: the backend loading flag tracks the fetches in flight:             *)
(* isLoadingBackend is true whenever a fetchLive call has not completed    *)
(* yet and false when none is in flight, overlapping fetches included.     *)
C26_LoadingTracksFetches ==
    isLoadingBackend <=> (fetches # << >>)

(* C27: report generation is single-flight and finishes its bookkeeping:   *)
(* at most one generation is in flight at a time, both buttons being       *)
(* disabled while isGeneratingReport is true; isGeneratingReport is true   *)
(* exactly while a generation is in flight, and false again once it has    *)
(* completed, with a report or with an error.                              *)
C27_SingleFlight ==
    /\ Len(reports) <= 1
    /\ isGeneratingReport <=> (reports # << >>)
    /\ lastOp.op \in {"generateReport", "downloadReport"} =>
          (isGeneratingReport /\ Len(reports) = 1)
    /\ lastOp.op \in {"reportDone", "reportFailed"} =>
          (~isGeneratingReport /\ reports = << >>)

(* a generation still in flight after a change of the selection that      *)
(* left its request behind *)
C27_Witness ==
    /\ isGeneratingReport
    /\ Len(reports) = 1
    /\ reports[1].for # request(state)
    /\ lastOp.op = "selectYear"

(* C28: selection lookups never fall back. After any sequence of controls  *)
(* selectedReservoirId is an id of RESERVOIRS, year and compareYear lie in *)
(* 2020..2024 and both seasons are among the four seasons, so currentData  *)
(* and comparisonData are the records of the selected reservoir whose year *)
(* and season are the primary and the comparison ones.                     *)
C28_NoFallback ==
    /\ state.selectedReservoirId \in KnownIds
    /\ selectedReservoir(state).id = state.selectedReservoirId
    /\ state.year \in 2020..2024
    /\ state.compareYear \in 2020..2024
    /\ state.season \in {"Winter", "Summer", "Monsoon", "Post-Monsoon"}
    /\ state.compareSeason \in {"Winter", "Summer", "Monsoon", "Post-Monsoon"}
    /\ currentData(state).year = state.year
    /\ currentData(state).season = state.season
    /\ comparisonData(state).year = state.compareYear
    /\ comparisonData(state).season = state.compareSeason
    /\ currentData(state) \in
          {getHistoricalData(state.selectedReservoirId)[k] : k \in 1..20}

(* a selection away from the first record in every respect: the last       *)
(* reservoir, with a primary and a comparison date of its own *)
C28_Witness ==
    /\ state.selectedReservoirId = IdKaveripakkam
    /\ state.year = 2022 /\ state.season = "Monsoon"
    /\ state.isComparisonMode
    /\ state.compareYear = 2020 /\ state.compareSeason = "Summer"
    /\ currentData(state).year = 2022 /\ currentData(state).season = "Monsoon"
    /\ comparisonData(state).season = "Summer"

----------------------------------------------------------------------------
(* MLControlPanel: the metrics of the model and its retraining *)

(* the loadMetrics calls the model lets be in flight at a time *)
MaxLoads == 2

(* what GET /model/metrics may answer: no answer, an error status, or a    *)
(* JSON body with or without the history of the training runs (IoU in     *)
(* hundredths) *)
MetricsResponses ==
    {[outcome |-> "network_error", json |-> NoArgument],
     [outcome |-> "http_error", json |-> NoArgument],
     [outcome |-> "ok", json |-> [history |-> << >>]],
     [outcome |-> "ok", json |-> [history |-> <<[iou |-> 71]>>]],
     [outcome |-> "ok", json |-> [history |-> <<[iou |-> 71], [iou |-> 82]>>]],
     [outcome |-> "ok", json |-> [detail |-> "Not Found"]]}

(* fetchModelMetrics: the body of an ok response, an empty history         *)
(* otherwise *)
fetchModelMetrics(r) ==
    IF r.outcome = "ok" THEN r.json ELSE [history |-> << >>]

(* the state of the panel after loadMetrics has received data: an          *)
(* unmounted component takes no update *)
loadMetrics(p, data) ==
    IF p.mounted /\ "history" \in DOMAIN data
    THEN [p EXCEPT !.metrics = data.history,
                   !.latestIoU = IF Len(data.history) > 0
                                 THEN data.history[Len(data.history)].iou
                                 ELSE @]
    ELSE p

(* the callback of setInterval: one more loadMetrics call, every five      *)
(* seconds for as long as the interval exists *)
IntervalTick ==
    /\ panel.interval
    /\ panel.loads < MaxLoads
    /\ panel' = [panel EXCEPT !.loads = @ + 1]
    /\ UNCHANGED <<genVars, mapView, reactVars, feedback>>

(* a loadMetrics call receives its answer *)
LoadMetricsDone ==
    /\ panel.loads > 0
    /\ \E r \in MetricsResponses :
          panel' = [loadMetrics(panel, fetchModelMetrics(r))
                        EXCEPT !.loads = @ - 1]
    /\ UNCHANGED <<genVars, mapView, reactVars, feedback>>

(* the Retrain button, disabled while isTraining *)
handleRetrain ==
    /\ panel.mounted
    /\ ~panel.isTraining
    /\ panel' = [panel EXCEPT !.isTraining = TRUE, !.retrain = "awaiting"]
    /\ UNCHANGED <<genVars, mapView, reactVars, feedback>>

(* retrainModel resolves: a ten-second timer on success, the flag lowered  *)
(* at once on failure *)
RetrainDone ==
    /\ panel.retrain = "awaiting"
    /\ \E success \in BOOLEAN :
          panel' = IF success
                   THEN [panel EXCEPT !.retrain = "timer"]
                   ELSE [panel EXCEPT !.retrain = "idle",
                                      !.isTraining = @ /\ ~panel.mounted]
    /\ UNCHANGED <<genVars, mapView, reactVars, feedback>>

(* the timer set after a successful request fires *)
TrainingTimeout ==
    /\ panel.retrain = "timer"
    /\ panel' = [panel EXCEPT !.retrain = "idle",
                              !.isTraining = @ /\ ~panel.mounted]
    /\ UNCHANGED <<genVars, mapView, reactVars, feedback>>

(* the cleanup of the effect: clearInterval *)
PanelUnmount ==
    /\ panel.mounted
    /\ panel' = [panel EXCEPT !.mounted = FALSE, !.interval = FALSE]
    /\ UNCHANGED <<genVars, mapView, reactVars, feedback>>

NextPanel ==
    \/ IntervalTick
    \/ LoadMetricsDone
    \/ handleRetrain
    \/ RetrainDone
    \/ TrainingTimeout
    \/ PanelUnmount

SpecPanel == Init /\ [][NextPanel]_vars

(* a training is outstanding: requested and not yet over *)
TrainingOutstanding == panel.isTraining \/ panel.retrain # "idle"

(* C29: metrics are polled only while a training is outstanding: the       *)
(* five-second poll of MLControlPanel is active when isTraining is true,   *)
(* is not running when no training action is outstanding, and has stopped  *)
(* once the component is unmounted.                                        *)
C29_PollWhileTraining ==
    /\ (panel.mounted /\ panel.isTraining) => panel.interval
    /\ ~TrainingOutstanding => ~panel.interval
    /\ ~panel.mounted => ~panel.interval

----------------------------------------------------------------------------
(* ModelFeedback: the feedback on the report on display *)

(* the submissions counted for one analysis before the model stops         *)
(* counting *)
MaxSubmits == 2

(* the values of the analysis prop: no report, or one of three report      *)
(* objects, two of them with the same contents *)
Analyses ==
    {Null,
     [key |-> 1, riskLevel |-> "High"],
     [key |-> 2, riskLevel |-> "High"],
     [key |-> 3, riskLevel |-> "Low"]}

(* the values of the data prop: three display records, two of them with    *)
(* the same contents (surfaceArea in hundredths) *)
DisplayRecords ==
    {[key |-> 1, surfaceArea |-> Fin(903)],
     [key |-> 2, surfaceArea |-> Fin(903)],
     [key |-> 3, surfaceArea |-> Fin(1234)]}

(* the options of the risk selector *)
RiskLevels == {"Low", "Moderate", "High", "Critical"}

(* parseFloat of the texts the number input may hold: a number, or the     *)
(* empty text *)
parseFloatInput(text) ==
    CASE text = "5.5" -> Fin(550)
      [] text = "12.34" -> Fin(1234)
      [] OTHER -> NaN

(* what both handlers pass as original *)
original(f) ==
    [surfaceArea |-> f.data.surfaceArea, risk |-> f.analysis.riskLevel]

(* a handler that reports the feedback and stays where it was *)
submitStaying(f, payload) ==
    [f EXCEPT !.onFeedbackSubmit = payload,
              !.sinceReset = @ + 1,
              !.perAnalysis = @ + 1]

(* onFeedbackSubmit(payload) followed by setFeedbackState('submitted') *)
submit(f, payload) ==
    [f EXCEPT !.onFeedbackSubmit = payload,
              !.feedbackState = "submitted",
              !.sinceReset = @ + 1,
              !.perAnalysis = @ + 1]

(* the parent renders the component with another analysis or another data  *)
(* object; the effect on [analysis, data] then runs, and resets the state  *)
(* when there is an analysis *)
FeedbackProps ==
    \E a \in Analyses, d \in DisplayRecords :
       /\ <<a, d>> # <<feedback.analysis, feedback.data>>
       /\ LET f == [feedback EXCEPT
                       !.analysis = a,
                       !.data = d,
                       !.perAnalysis = IF a = feedback.analysis THEN @ ELSE 0]
          IN  feedback' =
                 IF a # Null
                 THEN [f EXCEPT !.feedbackState = "idle",
                                !.userCorrection =
                                    [surfaceArea |-> d.surfaceArea,
                                     riskLevel |-> a.riskLevel],
                                !.sinceReset = 0]
                 ELSE f
       /\ UNCHANGED <<genVars, mapView, reactVars, panel>>

(* the button Yes, Accurate, rendered in the idle state *)
handlePositive ==
    /\ feedback.analysis # Null
    /\ feedback.feedbackState = "idle"
    /\ feedback.perAnalysis < MaxSubmits
    /\ feedback' = submit(feedback,
                          [correct |-> TRUE, original |-> original(feedback)])
    /\ UNCHANGED <<genVars, mapView, reactVars, panel>>

(* the button No, Edit, rendered in the idle state *)
NoEdit ==
    /\ feedback.analysis # Null
    /\ feedback.feedbackState = "idle"
    /\ feedback' = [feedback EXCEPT !.feedbackState = "comparing"]
    /\ UNCHANGED <<genVars, mapView, reactVars, panel>>

(* the number input and the risk selector, rendered in the comparing       *)
(* state *)
EditCorrection ==
    /\ feedback.analysis # Null
    /\ feedback.feedbackState = "comparing"
    /\ \/ \E text \in {"5.5", "12.34", ""} :
             feedback' = [feedback EXCEPT
                 !.userCorrection.surfaceArea = parseFloatInput(text)]
       \/ \E r \in RiskLevels :
             feedback' = [feedback EXCEPT !.userCorrection.riskLevel = r]
    /\ feedback' # feedback
    /\ UNCHANGED <<genVars, mapView, reactVars, panel>>

(* the button Update Model Weights, rendered in the comparing state *)
handleSubmitCorrection ==
    /\ feedback.analysis # Null
    /\ feedback.feedbackState = "comparing"
    /\ feedback.perAnalysis < MaxSubmits
    /\ feedback' = submit(feedback,
                          [correct |-> FALSE, original |-> original(feedback),
                           correction |-> feedback.userCorrection])
    /\ UNCHANGED <<genVars, mapView, reactVars, panel>>

NextFeedback ==
    \/ FeedbackProps
    \/ handlePositive
    \/ NoEdit
    \/ EditCorrection
    \/ handleSubmitCorrection

SpecFeedback == Init /\ [][NextFeedback]_vars

(* the state of the component was reset in this step *)
FeedbackReset ==
    /\ feedback'.analysis # Null
    /\ <<feedback'.analysis, feedback'.data>> # <<feedback.analysis, feedback.data>>

(* C30 as stated: feedback is submitted at most once per analysis: while   *)
(* the analysis prop stays the same object, onFeedbackSubmit is called at  *)
(* most once.                                                              *)
C30_OncePerAnalysis_Original ==
    feedback.perAnalysis <= 1

(* C30: ModelFeedback is a machine of three states. From idle, Yes calls   *)
(* onFeedbackSubmit and leads to submitted, and No leads to comparing;     *)
(* from comparing, submitting the correction calls onFeedbackSubmit and    *)
(* leads to submitted; in submitted nothing calls onFeedbackSubmit. The    *)
(* state returns to idle, with the correction reset to the surfaceArea of  *)
(* the data and the riskLevel of the analysis, only when the component is  *)
(* given another analysis or data object and the analysis is not null.     *)
(* onFeedbackSubmit is called at most once between two such resets, and    *)
(* may be called again for the same analysis after a change of the data.   *)
C30_FeedbackMachine ==
    [][/\ feedback.feedbackState \in {"idle", "comparing", "submitted"}
       /\ feedback.sinceReset <= 1
       /\ (feedback.feedbackState = "submitted") <=> (feedback.sinceReset = 1)
       /\ FeedbackReset =>
             /\ feedback'.feedbackState = "idle"
             /\ feedback'.sinceReset = 0
             /\ feedback'.userCorrection =
                    [surfaceArea |-> feedback'.data.surfaceArea,
                     riskLevel |-> feedback'.analysis.riskLevel]
       /\ ~FeedbackReset =>
             /\ feedback'.feedbackState = "idle" =>
                    feedback.feedbackState = "idle"
             /\ feedback'.feedbackState = "comparing" =>
                    feedback.feedbackState \in {"idle", "comparing"}
             /\ (feedback'.feedbackState = "submitted"
                   /\ feedback.feedbackState # "submitted") =>
                    /\ feedback'.sinceReset = feedback.sinceReset + 1
                    /\ feedback'.onFeedbackSubmit.original = original(feedback)
                    /\ feedback.feedbackState = "idle" =>
                           feedback'.onFeedbackSubmit.correct
                    /\ feedback.feedbackState = "comparing" =>
                           /\ ~feedback'.onFeedbackSubmit.correct
                           /\ feedback'.onFeedbackSubmit.correction =
                                  feedback.userCorrection
             /\ feedback.feedbackState = "submitted" =>
                    /\ feedback'.feedbackState = "submitted"
                    /\ feedback'.sinceReset = feedback.sinceReset
                    /\ feedback'.onFeedbackSubmit = feedback.onFeedbackSubmit
      ]_vars

(* feedback submitted twice for one analysis: an edited correction after   *)
(* the data changed under an analysis already confirmed *)
C30_Witness ==
    /\ feedback.feedbackState = "submitted"
    /\ feedback.sinceReset = 1
    /\ feedback.perAnalysis = 2
    /\ feedback.onFeedbackSubmit.correct = FALSE
    /\ feedback.onFeedbackSubmit.correction =
           [surfaceArea |-> NaN, riskLevel |-> "Critical"]

============================================================================
